---- MODULE Spec2Model ----
\* A model of rename.py (ambv/rename): the Renamer class, its two entry points
\* rename_regex / rename_simple, the name expansion, the plan kept in
\* Renamer.targets, its validation and its execution against a directory.
\*
\* Strings are sequences of one-character strings (<<"x", "a">> is "xa"), so that
\* str.replace, re.findall, lower() and upper() are computed, not assumed.
EXTENDS Integers, Sequences, FiniteSets, TLC

\* ---------------------------------------------------------------------------
\* Characters and strings
\* ---------------------------------------------------------------------------

LowerLetters == <<"a","b","c","d","e","f","g","h","i","j","k","l","m",
                  "n","o","p","q","r","s","t","u","v","w","x","y","z">>

UpperLetters == <<"A","B","C","D","E","F","G","H","I","J","K","L","M",
                  "N","O","P","Q","R","S","T","U","V","W","X","Y","Z">>

Digits == <<"0","1","2","3","4","5","6","7","8","9">>

DigitValues == [c \in {Digits[i] : i \in 1..Len(Digits)} |->
                    (CHOOSE i \in 1..Len(Digits) : Digits[i] = c) - 1]

IsDigit(c) == c \in DOMAIN DigitValues

DigitValue(c) == DigitValues[c]

LowerOf == [c \in {UpperLetters[i] : i \in 1..Len(UpperLetters)} |->
                LowerLetters[CHOOSE i \in 1..Len(UpperLetters) : UpperLetters[i] = c]]

UpperOf == [c \in {LowerLetters[i] : i \in 1..Len(LowerLetters)} |->
                UpperLetters[CHOOSE i \in 1..Len(LowerLetters) : LowerLetters[i] = c]]

\* str.lower() on one character
LowerChar(c) == IF c \in DOMAIN LowerOf THEN LowerOf[c] ELSE c

\* str.upper() on one character
UpperChar(c) == IF c \in DOMAIN UpperOf THEN UpperOf[c] ELSE c

StrLower(s) == [i \in 1..Len(s) |-> LowerChar(s[i])]

StrUpper(s) == [i \in 1..Len(s) |-> UpperChar(s[i])]

\* TRANSFORM[xform](x)
TRANSFORM(xform, x) ==
    CASE xform = "lower" -> StrLower(x)
      [] xform = "upper" -> StrUpper(x)
      [] OTHER -> x

\* s[p+1 .. p+n] (0-based start p, length n), Python s[p:p+n]
Slice(s, p, n) == [i \in 1..n |-> s[p + i]]

\* s.startswith(t, p)
StartsWithAt(s, t, p) ==
    /\ p + Len(t) <= Len(s)
    /\ \A i \in 1..Len(t) : s[p + i] = t[i]

\* str.replace(old, new) scanning from 0-based position p: every non-overlapping
\* occurrence left to right; an empty `old` matches before every character and
\* at the end.
RECURSIVE ReplaceFrom(_, _, _, _)
ReplaceFrom(s, old, new, p) ==
    IF Len(old) = 0
    THEN IF p >= Len(s) THEN new
         ELSE new \o <<s[p + 1]>> \o ReplaceFrom(s, old, new, p + 1)
    ELSE IF p >= Len(s) THEN <<>>
         ELSE IF StartsWithAt(s, old, p)
              THEN new \o ReplaceFrom(s, old, new, p + Len(old))
              ELSE <<s[p + 1]>> \o ReplaceFrom(s, old, new, p + 1)

StrReplace(s, old, new) == ReplaceFrom(s, old, new, 0)

\* int(s) for a string of decimal digits
RECURSIVE ParseInt(_)
ParseInt(s) ==
    IF Len(s) = 0 THEN 0
    ELSE 10 * ParseInt(SubSeq(s, 1, Len(s) - 1)) + DigitValue(s[Len(s)])

\* int(ref) succeeds (no ValueError): ref is a string of decimal digits
IsIntLiteral(s) == Len(s) > 0 /\ \A i \in 1..Len(s) : IsDigit(s[i])

\* "%d" % n
RECURSIVE NatToStr(_)
NatToStr(n) ==
    IF n < 10 THEN <<Digits[n + 1]>>
    ELSE NatToStr(n \div 10) \o <<Digits[(n % 10) + 1]>>

FormatD(n) == IF n < 0 THEN <<"-">> \o NatToStr(0 - n) ELSE NatToStr(n)

\* ---------------------------------------------------------------------------
\* Regular expressions.  A pattern is a sequence of alternatives (top-level
\* `|`); an alternative is a sequence of atoms; an atom is a literal character,
\* `.`, `\d` or `.*`, optionally wrapped in a capture group.
\* ---------------------------------------------------------------------------

Lit(ch)   == [k |-> "lit", c |-> ch, g |-> FALSE]
Dot       == [k |-> "dot", c |-> "", g |-> FALSE]
Digit     == [k |-> "digit", c |-> "", g |-> FALSE]
DotStar   == [k |-> "dotstar", c |-> "", g |-> FALSE]
Group(a)  == [a EXCEPT !.g = TRUE]

\* re.compile(pattern, flags): bol / eol are the `^` and `$` that
\* "^%s$" % regex puts before the first and after the last alternative.
Compile(pattern, ignorecase, anchored) ==
    [alts |-> pattern, ic |-> ignorecase, bol |-> anchored, eol |-> anchored]

CharMatches(a, ch, ic) ==
    CASE a.k = "lit" -> IF ic THEN LowerChar(a.c) = LowerChar(ch) ELSE a.c = ch
      [] a.k = "digit" -> IsDigit(ch)
      [] OTHER -> TRUE

\* every outcome gets the text captured by atom a put in front of its groups
AddGroup(a, text, outcomes) ==
    IF a.g
    THEN [j \in 1..Len(outcomes) |->
            [end |-> outcomes[j].end, groups |-> <<text>> \o outcomes[j].groups]]
    ELSE outcomes

\* The ways atoms[i..] match s from 0-based position p, in the order the
\* backtracking matcher tries them (`.*` is greedy: longest first).
RECURSIVE MatchAtoms(_, _, _, _, _), StarFrom(_, _, _, _, _, _)
MatchAtoms(atoms, i, s, p, ic) ==
    IF i > Len(atoms) THEN << [end |-> p, groups |-> <<>>] >>
    ELSE IF atoms[i].k = "dotstar"
         THEN StarFrom(atoms, i, s, p, ic, Len(s) - p)
         ELSE IF p < Len(s) /\ CharMatches(atoms[i], s[p + 1], ic)
              THEN AddGroup(atoms[i], <<s[p + 1]>>,
                            MatchAtoms(atoms, i + 1, s, p + 1, ic))
              ELSE <<>>
StarFrom(atoms, i, s, p, ic, n) ==
    IF n < 0 THEN <<>>
    ELSE AddGroup(atoms[i], Slice(s, p, n),
                  MatchAtoms(atoms, i + 1, s, p + n, ic))
         \o StarFrom(atoms, i, s, p, ic, n - 1)

GroupCount(atoms) == Cardinality({i \in 1..Len(atoms) : atoms[i].g})

RECURSIVE GroupsBefore(_, _)
GroupsBefore(alts, a) ==
    IF a <= 1 THEN 0 ELSE GroupsBefore(alts, a - 1) + GroupCount(alts[a - 1])

TotalGroups(alts) == GroupsBefore(alts, Len(alts) + 1)

NoMatch == [ok |-> FALSE, whole |-> <<>>, groups |-> <<>>]

\* The match object for outcome o of alternative a tried at position p: the
\* groups of the other alternatives did not take part (None).
MatchObject(r, a, s, p, o) ==
    [ok |-> TRUE,
     whole |-> Slice(s, p, o.end - p),
     groups |-> [n \in 1..TotalGroups(r.alts) |->
         IF /\ n > GroupsBefore(r.alts, a)
            /\ n <= GroupsBefore(r.alts, a) + Len(o.groups)
         THEN [some |-> TRUE, text |-> o.groups[n - GroupsBefore(r.alts, a)]]
         ELSE [some |-> FALSE, text |-> <<>>]]]

\* the first of the outcomes, from the j-th on, that satisfies the `$`
RECURSIVE FirstOutcome(_, _, _, _, _, _)
FirstOutcome(r, a, s, p, outs, j) ==
    IF j > Len(outs) THEN NoMatch
    ELSE IF (r.eol /\ a = Len(r.alts)) => outs[j].end = Len(s)
         THEN MatchObject(r, a, s, p, outs[j])
         ELSE FirstOutcome(r, a, s, p, outs, j + 1)

\* One alternative tried at position p
MatchAltAt(r, a, s, p) ==
    IF r.bol /\ a = 1 /\ p # 0 THEN NoMatch
    ELSE FirstOutcome(r, a, s, p, MatchAtoms(r.alts[a], 1, s, p, r.ic), 1)

\* Pattern.search(s): leftmost start, and at one start the first alternative
\* that matches.
RECURSIVE SearchFrom(_, _, _, _), SearchNext(_, _, _, _, _)
SearchFrom(r, s, p, a) ==
    IF p > Len(s) THEN NoMatch
    ELSE IF a > Len(r.alts) THEN SearchFrom(r, s, p + 1, 1)
    ELSE SearchNext(r, s, p, a, MatchAltAt(r, a, s, p))
SearchNext(r, s, p, a, m) ==
    IF m.ok THEN m ELSE SearchFrom(r, s, p, a + 1)

Search(r, s) == SearchFrom(r, s, 0, 1)

\* ---------------------------------------------------------------------------
\* Name expansion
\* ---------------------------------------------------------------------------

\* What a Python call gives: a value, or the exception it raises (exc = the
\* exception and its message; "" when none).
Val(v) == [exc |-> "", val |-> v]
Raise(e) == [exc |-> e, val |-> <<>>]

\* The exceptions caught by `except ValueError` in rename_regex / rename_simple
ValueErrors == {"ValueError: unknown reference", "ValueError: math domain error",
                "ValueError: invalid literal for int()",
                "ValueError: multiple files", "ValueError: target exists"}

RECURSIVE DigitRun(_, _)
DigitRun(t, p) ==
    IF p < Len(t) /\ IsDigit(t[p + 1]) THEN 1 + DigitRun(t, p + 1) ELSE 0

\* MATCH_REGEX.findall(target): the digit strings of the \N tokens
RECURSIVE FindBackrefs(_, _)
FindBackrefs(t, p) ==
    IF p >= Len(t) THEN <<>>
    ELSE IF t[p + 1] = "\\" /\ DigitRun(t, p + 1) > 0
         THEN <<Slice(t, p + 1, DigitRun(t, p + 1))>>
              \o FindBackrefs(t, p + 1 + DigitRun(t, p + 1))
         ELSE FindBackrefs(t, p + 1)

RECURSIVE NonParenRun(_, _)
NonParenRun(t, p) ==
    IF p < Len(t) /\ t[p + 1] # ")" THEN 1 + NonParenRun(t, p + 1) ELSE 0

\* MATCH_REGEX_BRACKETS.findall(target): the refs of the \(ref) tokens
RECURSIVE FindBrackets(_, _)
FindBrackets(t, p) ==
    IF p >= Len(t) THEN <<>>
    ELSE LET n == NonParenRun(t, p + 2)
         IN  IF /\ StartsWithAt(t, <<"\\", "(">>, p)
                /\ n > 0
                /\ p + 2 + n < Len(t)
             THEN <<Slice(t, p + 2, n)>> \o FindBrackets(t, p + 3 + n)
             ELSE FindBrackets(t, p + 1)

\* match.group(n); group 0 is the whole match.  A group that took no part in
\* the match is None, and str.replace(x, None) raises TypeError.
MatchGroup(m, n) ==
    IF n = 0 THEN Val(m.whole)
    ELSE IF n > Len(m.groups) THEN Raise("IndexError: no such group")
    ELSE IF ~m.groups[n].some THEN Raise("TypeError: replace() argument 2")
    ELSE Val(m.groups[n].text)

\* Renamer.index
Index(cfg, number) == cfg.index_first + (number * cfg.index_step)

\* int(math.log(x, 10)) + 1 for x > 0: the number of decimal digits, except
\* where the floating-point quotient falls just under the integer.
LogDigits(x) ==
    IF x = 1000 \/ x = 1000000 THEN Len(NatToStr(x)) - 1 ELSE Len(NatToStr(x))

RECURSIVE Repeat(_, _)
Repeat(s, n) == IF n <= 0 THEN <<>> ELSE s \o Repeat(s, n - 1)

\* Mutant of IndexReplacement: the digits cut down to the fixed width.
IndexReplacementTruncating(cfg, index, max_indexes) ==
    LET replacement == FormatD(Index(cfg, index))
        padded(index_digits) ==
            IF index_digits - Len(replacement) > 0
            THEN Repeat(cfg.index_pad_with, index_digits - Len(replacement))
                 \o replacement
            ELSE SubSeq(replacement, Len(replacement) - index_digits + 1,
                        Len(replacement))
    IN  IF cfg.index_digits = <<"a", "u", "t", "o">>
        THEN IF Index(cfg, max_indexes) <= 0
             THEN Raise("ValueError: math domain error")
             ELSE Val(padded(LogDigits(Index(cfg, max_indexes))))
        ELSE IF ~IsIntLiteral(cfg.index_digits)
             THEN Raise("ValueError: invalid literal for int()")
             ELSE Val(padded(ParseInt(cfg.index_digits)))

\* The replacement for \(index)
IndexReplacement(cfg, index, max_indexes) ==
    LET replacement == FormatD(Index(cfg, index))
        padded(index_digits) ==
            IF index_digits - Len(replacement) > 0
            THEN Repeat(cfg.index_pad_with, index_digits - Len(replacement))
                 \o replacement
            ELSE replacement
    IN  IF cfg.index_digits = <<"a", "u", "t", "o">>
        THEN IF Index(cfg, max_indexes) <= 0
             THEN Raise("ValueError: math domain error")
             ELSE Val(padded(LogDigits(Index(cfg, max_indexes))))
        ELSE IF ~IsIntLiteral(cfg.index_digits)
             THEN Raise("ValueError: invalid literal for int()")
             ELSE Val(padded(ParseInt(cfg.index_digits)))

\* The first loop of _apply_match: each \N replaced throughout move_to
RECURSIVE ApplyBackrefs(_, _, _, _), ReplaceBackref(_, _, _, _, _)
ApplyBackrefs(m, nums, i, move_to) ==
    IF i > Len(nums) THEN Val(move_to)
    ELSE ReplaceBackref(m, nums, i, move_to, MatchGroup(m, ParseInt(nums[i])))
ReplaceBackref(m, nums, i, move_to, g) ==
    IF g.exc # "" THEN g
    ELSE ApplyBackrefs(m, nums, i + 1,
                       StrReplace(move_to, <<"\\">> \o nums[i], g.val))

\* Mutant of BracketReplacement: every ref that is no number taken for the index.
BracketReplacementNoRaise(cfg, m, ref, index, max_indexes) ==
    IF IsIntLiteral(ref) THEN MatchGroup(m, ParseInt(ref))
    ELSE IndexReplacement(cfg, index, max_indexes)

\* Mutant of BracketReplacement: the index token compared as written.
BracketReplacementExact(cfg, m, ref, index, max_indexes) ==
    IF IsIntLiteral(ref) THEN MatchGroup(m, ParseInt(ref))
    ELSE IF ref # <<"i", "n", "d", "e", "x">>
         THEN Raise("ValueError: unknown reference")
         ELSE IndexReplacement(cfg, index, max_indexes)

\* The replacement of one \(ref): a group number, or the index
BracketReplacement(cfg, m, ref, index, max_indexes) ==
    IF IsIntLiteral(ref) THEN MatchGroup(m, ParseInt(ref))
    ELSE IF StrLower(ref) # <<"i", "n", "d", "e", "x">>
         THEN Raise("ValueError: unknown reference")
         ELSE IndexReplacement(cfg, index, max_indexes)

\* The second loop of _apply_match
RECURSIVE ApplyBrackets(_, _, _, _, _, _, _), ReplaceBracket(_, _, _, _, _, _, _, _)
ApplyBrackets(cfg, m, refs, i, move_to, index, max_indexes) ==
    IF i > Len(refs) THEN Val(move_to)
    ELSE ReplaceBracket(cfg, m, refs, i, move_to, index, max_indexes,
                        BracketReplacement(cfg, m, refs[i], index, max_indexes))
ReplaceBracket(cfg, m, refs, i, move_to, index, max_indexes, g) ==
    IF g.exc # "" THEN g
    ELSE ApplyBrackets(cfg, m, refs, i + 1,
             StrReplace(move_to, <<"\\", "(">> \o refs[i] \o <<")">>, g.val),
             index, max_indexes)

\* Mutant of Transformed: the expanded name returned as it is.
TransformedNot(cfg, move_to) == move_to

\* return TRANSFORM[self.xform](move_to), unless an exception was raised
Transformed(cfg, move_to) ==
    IF move_to.exc # "" THEN move_to ELSE Val(TRANSFORM(cfg.xform, move_to.val))

\* the second loop of _apply_match and the return, after the first loop
AfterBackrefs(cfg, m, target, index, max_indexes, first) ==
    IF first.exc # "" THEN first
    ELSE Transformed(cfg, ApplyBrackets(cfg, m, FindBrackets(target, 0), 1,
                                        first.val, index, max_indexes))

\* Renamer._apply_match
ApplyMatch(cfg, m, target, index, max_indexes) ==
    AfterBackrefs(cfg, m, target, index, max_indexes,
                  ApplyBackrefs(m, FindBackrefs(target, 0), 1, target))

\* The replacement template of Pattern.sub: what is wrong with repl from
\* 0-based position p on ("" when nothing is).  The pattern is an escaped
\* literal and has no groups, so \1..\9 and \g<N> with N > 0 are invalid group
\* references.  The escapes told apart are \n \t \r \f \\ \g<N> and \1..\9;
\* any other character after a backslash is given as a bad escape.
RECURSIVE TemplateError(_, _)
TemplateError(repl, p) ==
    IF p >= Len(repl) THEN ""
    ELSE IF repl[p + 1] # "\\" THEN TemplateError(repl, p + 1)
    ELSE IF p + 1 >= Len(repl) THEN "re.error: bad escape (end of pattern)"
    ELSE IF repl[p + 2] \in {"n", "t", "r", "f", "\\"} THEN TemplateError(repl, p + 2)
    ELSE IF repl[p + 2] = "g"
         THEN IF ~StartsWithAt(repl, <<"<">>, p + 2)
              THEN "re.error: missing <"
              ELSE IF \/ DigitRun(repl, p + 3) = 0
                      \/ ~StartsWithAt(repl, <<">">>, p + 3 + DigitRun(repl, p + 3))
                   THEN "re.error: bad character in group name"
                   ELSE IF ParseInt(Slice(repl, p + 3, DigitRun(repl, p + 3))) # 0
                        THEN "re.error: invalid group reference"
                        ELSE TemplateError(repl, p + 4 + DigitRun(repl, p + 3))
    ELSE IF IsDigit(repl[p + 2]) /\ repl[p + 2] # "0"
         THEN "re.error: invalid group reference"
    ELSE "re.error: bad escape"

\* the character a control escape of the template stands for
Unescape(c) ==
    CASE c = "n" -> "\n"
      [] c = "t" -> "\t"
      [] c = "r" -> "\r"
      [] c = "f" -> "\f"
      [] OTHER -> c

\* The text a valid template puts in for one occurrence (whole is the text of
\* the occurrence, \g<0>), from 0-based position p of repl on.
RECURSIVE ExpandTemplate(_, _, _)
ExpandTemplate(repl, p, whole) ==
    IF p >= Len(repl) THEN <<>>
    ELSE IF repl[p + 1] # "\\"
         THEN <<repl[p + 1]>> \o ExpandTemplate(repl, p + 1, whole)
    ELSE IF repl[p + 2] = "g"
         THEN whole \o ExpandTemplate(repl, p + 4 + DigitRun(repl, p + 3), whole)
    ELSE <<Unescape(repl[p + 2])>> \o ExpandTemplate(repl, p + 2, whole)

\* Pattern.sub(repl, s) for an escaped (literal) pattern and a valid template
\* repl, from 0-based position p: every non-overlapping occurrence, left to
\* right; an empty pattern matches before every character and at the end.
RECURSIVE SubFrom(_, _, _, _, _)
SubFrom(pat, ic, repl, s, p) ==
    LET here == IF ic THEN StartsWithAt(StrLower(s), StrLower(pat), p)
                ELSE StartsWithAt(s, pat, p)
    IN  IF Len(pat) = 0
        THEN IF p >= Len(s) THEN ExpandTemplate(repl, 0, <<>>)
             ELSE ExpandTemplate(repl, 0, <<>>) \o <<s[p + 1]>>
                  \o SubFrom(pat, ic, repl, s, p + 1)
        ELSE IF p >= Len(s) THEN <<>>
             ELSE IF here
                  THEN ExpandTemplate(repl, 0, Slice(s, p, Len(pat)))
                       \o SubFrom(pat, ic, repl, s, p + Len(pat))
                  ELSE <<s[p + 1]>> \o SubFrom(pat, ic, repl, s, p + 1)

\* Renamer._apply_replace
ApplyReplace(cfg, m, substring_from, substring_to) ==
    IF TemplateError(substring_to, 0) # ""
    THEN Raise(TemplateError(substring_to, 0))
    ELSE Val(TRANSFORM(cfg.xform,
                       SubFrom(substring_from, cfg.case_insensitive,
                               substring_to, m.whole, 0)))

\* ---------------------------------------------------------------------------
\* The directory.  fs maps each entry name to its file [ino, data]; cs tells a
\* case-sensitive filesystem from a case-preserving one, where a name denotes
\* the entry whose name equals it up to letter case.
\* ---------------------------------------------------------------------------

\* the entry (none or one) a name denotes
Keys(fs, cs, name) ==
    {k \in DOMAIN fs : IF cs THEN k = name ELSE StrLower(k) = StrLower(name)}

Key(fs, cs, name) == CHOOSE k \in Keys(fs, cs, name) : TRUE

\* os.path.exists
PathExists(fs, cs, name) == Keys(fs, cs, name) # {}

\* os.stat(name).st_ino
StatIno(fs, cs, name) ==
    IF PathExists(fs, cs, name) THEN Val(fs[Key(fs, cs, name)].ino)
    ELSE Raise("OSError: FileNotFoundError")

\* Mutant of IsSameFile: the names compared as written.
IsSameFileByName(fs, cs, file1, file2) == Val(file1 = file2)

\* is_same_file
IsSameFile(fs, cs, file1, file2) ==
    IF StrLower(file1) # StrLower(file2) THEN Val(FALSE)
    ELSE LET a == StatIno(fs, cs, file1)
             b == StatIno(fs, cs, file2)
         IN  IF a.exc # "" THEN a
             ELSE IF b.exc # "" THEN b
             ELSE Val(a.val = b.val)

\* os.sep
OsSep == "/"

\* os.sep in value, for a string
HasSep(value) == \E i \in 1..Len(value) : value[i] = OsSep

\* os.rename(src, dst) (POSIX: an existing dst is replaced).  The directory
\* holds files only, so a dst with a separator names a path under a directory
\* that does not exist.
OsRename(fs, cs, src, dst) ==
    IF ~PathExists(fs, cs, src) \/ dst = <<>> \/ HasSep(dst)
    THEN Raise("OSError: FileNotFoundError")
    ELSE LET sk == Key(fs, cs, src)
             gone == {sk} \cup Keys(fs, cs, dst)
         IN  Val([k \in (DOMAIN fs \ gone) \cup {dst} |->
                    IF k = dst THEN fs[sk] ELSE fs[k]])

FreshIno(fs) ==
    1 + (CHOOSE n \in {0} \cup {fs[k].ino : k \in DOMAIN fs} :
            \A k \in DOMAIN fs : fs[k].ino <= n)

\* shutil.copy(src, dst); copymode and copystat follow and leave names and
\* contents as they are.
ShutilCopy(fs, cs, src, dst) ==
    IF ~PathExists(fs, cs, src) \/ dst = <<>> \/ HasSep(dst)
    THEN Raise("OSError: FileNotFoundError")
    ELSE IF Keys(fs, cs, dst) = Keys(fs, cs, src)
    THEN Raise("OSError: SameFileError")
    ELSE LET sk == Key(fs, cs, src)
         IN  IF PathExists(fs, cs, dst)
             THEN Val([fs EXCEPT ![Key(fs, cs, dst)].data = fs[sk].data])
             ELSE Val([k \in DOMAIN fs \cup {dst} |->
                        IF k = dst THEN [ino |-> FreshIno(fs), data |-> fs[sk].data]
                        ELSE fs[k]])

\* ---------------------------------------------------------------------------
\* Renamer._rename.  targets is the dict self.targets in insertion order: a
\* sequence of [target, sources].
\* ---------------------------------------------------------------------------

\* self.targets.setdefault(move_to, []).append(entry)
SetDefaultAppend(targets, move_to, entry) ==
    IF \E j \in 1..Len(targets) : targets[j].target = move_to
    THEN [j \in 1..Len(targets) |->
            IF targets[j].target = move_to
            THEN [targets[j] EXCEPT !.sources = Append(@, entry)]
            ELSE targets[j]]
    ELSE Append(targets, [target |-> move_to, sources |-> <<entry>>])

\* Mutant of FilterFiles: nothing excluded.
FilterFilesKeepAll(files, except_regex, ic) == files

\* files = [f for f in files if not exc.search(f)]
RECURSIVE FilterFiles(_, _, _)
FilterFiles(files, except_regex, ic) ==
    IF except_regex = <<>> \/ files = <<>> THEN files
    ELSE LET rest == FilterFiles(Tail(files), except_regex, ic)
         IN  IF Search(Compile(except_regex, ic, FALSE), Head(files)).ok
             THEN rest ELSE <<Head(files)>> \o rest

\* classic regex mode or simple mode, for one matched entry
MoveTo(cfg, call, m, index, file_count) ==
    IF call.mode = "regex"
    THEN ApplyMatch(cfg, m, call.target, index, file_count)
    ELSE ApplyReplace(cfg, m, call.substring_from, call.substring_to)

\* for index, entry in enumerate(files): ... ; i is index + 1
RECURSIVE Scan(_, _, _, _, _), ScanMatch(_, _, _, _, _, _), ScanMoveTo(_, _, _, _, _, _)
Scan(cfg, call, files, i, targets) ==
    IF i > Len(files) THEN [exc |-> "", targets |-> targets]
    ELSE ScanMatch(cfg, call, files, i, targets,
             Search(Compile(call.regex, cfg.case_insensitive, TRUE), files[i]))
\* m = r.search(entry); if not m: continue
ScanMatch(cfg, call, files, i, targets, m) ==
    IF ~m.ok THEN Scan(cfg, call, files, i + 1, targets)
    ELSE ScanMoveTo(cfg, call, files, i, targets,
                    MoveTo(cfg, call, m, i - 1, Len(files)))
\* self.targets.setdefault(move_to, []).append(entry), unless move_to raised
ScanMoveTo(cfg, call, files, i, targets, move_to) ==
    IF move_to.exc # "" THEN [exc |-> move_to.exc, targets |-> targets]
    ELSE Scan(cfg, call, files, i + 1,
              SetDefaultAppend(targets, move_to.val, files[i]))

\* Mutant of TargetExists: the pre-existing-target check left out.
TargetExistsNotChecked(exists, same) == ""

\* Mutant of TargetExists: the same-file exception left out.
TargetExistsNoException(exists, same) ==
    IF exists THEN "ValueError: target exists" ELSE ""

\* os.path.exists(target) and not is_same_file(target, sources[0])
TargetExists(exists, same) ==
    IF ~exists THEN ""
    ELSE IF same.exc # "" THEN same.exc
    ELSE IF ~same.val THEN "ValueError: target exists"
    ELSE ""

\* Mutant of SanityCheck: the fan-in check left out.
SanityCheckNoFanIn(fs, cs, t) ==
    TargetExists(PathExists(fs, cs, t.target),
                 IsSameFile(fs, cs, t.target, t.sources[1]))

\* the sanity check of one plan entry: "" or the exception raised
SanityCheck(fs, cs, t) ==
    IF Len(t.sources) > 1 THEN "ValueError: multiple files"
    ELSE TargetExists(PathExists(fs, cs, t.target),
                      IsSameFile(fs, cs, t.target, t.sources[1]))

\* Mutant of Sanity: the fan-in check made over the whole plan first.
SanityFanInFirst(fs, cs, targets, j) ==
    IF \E k \in j..Len(targets) : Len(targets[k].sources) > 1
    THEN "ValueError: multiple files"
    ELSE IF \E k \in j..Len(targets) : SanityCheck(fs, cs, targets[k]) # ""
    THEN "ValueError: target exists"
    ELSE ""

\* # sanity check: the first exception in plan order, "" when there is none
RECURSIVE Sanity(_, _, _, _), SanityNext(_, _, _, _, _)
Sanity(fs, cs, targets, j) ==
    IF j > Len(targets) THEN ""
    ELSE SanityNext(fs, cs, targets, j, SanityCheck(fs, cs, targets[j]))
SanityNext(fs, cs, targets, j, raised) ==
    IF raised # "" THEN raised ELSE Sanity(fs, cs, targets, j + 1)

\* Mutant of Apply: self.test not consulted.
ApplyIgnoringTest(cfg, fs, cs, t) ==
    IF t.sources[1] = t.target THEN Val(fs)
    ELSE IF cfg.copy THEN ShutilCopy(fs, cs, t.sources[1], t.target)
    ELSE OsRename(fs, cs, t.sources[1], t.target)

\* Mutant of Apply: an entry whose name does not change is not skipped.
ApplyWithoutSkip(cfg, fs, cs, t) ==
    IF cfg.test THEN Val(fs)
    ELSE IF cfg.copy THEN ShutilCopy(fs, cs, t.sources[1], t.target)
    ELSE OsRename(fs, cs, t.sources[1], t.target)

\* the body of the `actual rename` loop for one plan entry
Apply(cfg, fs, cs, t) ==
    IF t.sources[1] = t.target \/ cfg.test THEN Val(fs)
    ELSE IF cfg.copy THEN ShutilCopy(fs, cs, t.sources[1], t.target)
    ELSE OsRename(fs, cs, t.sources[1], t.target)

\* # actual rename: in plan order, stopping at the first exception
RECURSIVE Execute(_, _, _, _, _), ExecuteNext(_, _, _, _, _, _)
Execute(cfg, fs, cs, targets, j) ==
    IF j > Len(targets) THEN [exc |-> "", fs |-> fs]
    ELSE ExecuteNext(cfg, fs, cs, targets, j, Apply(cfg, fs, cs, targets[j]))
ExecuteNext(cfg, fs, cs, targets, j, done) ==
    IF done.exc # "" THEN [exc |-> done.exc, fs |-> fs]
    ELSE Execute(cfg, done.val, cs, targets, j + 1)

\* what _rename leaves: the exception raised ("" for none), the directory and
\* self.targets
Outcome(exc, fs, targets) == [exc |-> exc, fs |-> fs, targets |-> targets]

\* the `actual rename` loop over a plan that passed the sanity check
Executed(targets, run) == Outcome(run.exc, run.fs, targets)

\* Mutant of Checked: the rename loop runs before the sanity check raises.
CheckedAfterRename(r, fs, cs, targets, raised) ==
    IF raised # "" THEN Outcome(raised, Execute(r, fs, cs, targets, 1).fs, targets)
    ELSE Executed(targets, Execute(r, fs, cs, targets, 1))

\* Mutant of Checked: a dry run goes on to its reports whatever the sanity
\* check found.
CheckedDryRunUnchecked(r, fs, cs, targets, raised) ==
    IF raised # "" /\ ~r.test THEN Outcome(raised, fs, targets)
    ELSE Executed(targets, Execute(r, fs, cs, targets, 1))

\* a raise in the sanity check, or else the `actual rename` loop
Checked(r, fs, cs, targets, raised) ==
    IF raised # "" THEN Outcome(raised, fs, targets)
    ELSE Executed(targets, Execute(r, fs, cs, targets, 1))

\* a raise in the scan, or else the sanity check and what follows it
Planned(r, fs, cs, plan) ==
    IF plan.exc # "" THEN Outcome(plan.exc, fs, plan.targets)
    ELSE Checked(r, fs, cs, plan.targets, Sanity(fs, cs, plan.targets, 1))

\* os.sep in value, for a regex: a literal separator among its atoms
RegexHasSep(regex) ==
    \E a \in 1..Len(regex) : \E i \in 1..Len(regex[a]) :
        regex[a][i].k = "lit" /\ regex[a][i].c = OsSep

\* The arguments for which `value and os.sep in value` holds: one warning on
\* stderr for each.
WarningCheck(call) ==
    {n \in {"regex", "except_regex"} : RegexHasSep(call[n])}
    \cup {n \in {"target", "substring_from", "substring_to"} : HasSep(call[n])}

\* Mutant of Warned: a path separator in an argument ends the batch.
WarnedFatal(r, fs, warned, res) ==
    IF warned # {}
    THEN [exc |-> "ValueError: path separator", fs |-> fs,
          targets |-> r.targets, warnings |-> warned]
    ELSE [exc |-> res.exc, fs |-> res.fs, targets |-> res.targets,
          warnings |-> warned]

\* the warnings are printed and _rename goes on to what follows the loop
Warned(r, fs, warned, res) ==
    [exc |-> res.exc, fs |-> res.fs, targets |-> res.targets,
     warnings |-> warned]

\* Renamer._rename on the object r (configuration and self.targets), with
\* listing = os.listdir(".")
Rename(r, fs, cs, call, listing) ==
    Warned(r, fs, WarningCheck(call),
           Planned(r, fs, cs,
                   Scan(r, call,
                        FilterFiles(listing, call.except_regex, r.case_insensitive),
                        1, r.targets)))

\* rename_regex / rename_simple: the status code for what _rename raised
StatusCode(exc) ==
    IF exc = "" THEN 0 ELSE IF exc \in ValueErrors THEN 1 ELSE 2

\* ---------------------------------------------------------------------------
\* Inputs
\* ---------------------------------------------------------------------------

\* the largest number of entries in the directory a behaviour starts from
MaxFiles == 2

\* the names the starting directory draws its entries from
NamePool == << <<"x","b">>, <<"a","B">>, <<"b","a">>, <<"a","a">>, <<"A","a">> >>

PoolId(name) == CHOOSE i \in 1..Len(NamePool) : NamePool[i] = name

\* a directory of the pool's names, each entry a file of its own
Directory(names) ==
    [n \in names |-> [ino |-> PoolId(n), data |-> PoolId(n)]]

\* no two entries of a case-preserving directory differ only in letter case
Coexist(names, cs) ==
    cs \/ \A a, b \in names : StrLower(a) = StrLower(b) => a = b

Directories(cs) ==
    {Directory(names) : names \in
        {S \in SUBSET {NamePool[i] : i \in 1..Len(NamePool)} :
            Cardinality(S) <= MaxFiles /\ Coexist(S, cs)}}

\* the largest number of entries in a directory whose batch is validated with
\* several failing destinations
MaxOrderFiles == 3

OrderDirectories(cs) ==
    {Directory(names) : names \in
        {S \in SUBSET {NamePool[i] : i \in 1..Len(NamePool)} :
            Cardinality(S) <= MaxOrderFiles /\ Coexist(S, cs)}}

\* names for the batches with many groups: one of ten characters, one that
\* holds the text of a reference token, one short
TemplatePool == << <<"a","b","c","d","e","f","g","h","i","j">>,
                   <<"x","\\","1">>,
                   <<"x","b">> >>

TemplateDirectories ==
    {[n \in {TemplatePool[i] : i \in S} |->
        [ino |-> CHOOSE i \in S : TemplatePool[i] = n,
         data |-> CHOOSE i \in S : TemplatePool[i] = n]] :
     S \in {T \in SUBSET (1..Len(TemplatePool)) : Cardinality(T) <= MaxFiles}}

\* Renamer.__init__: the configuration, and an empty self.targets
Renamer(test, case_insensitive, xform, copy) ==
    [case_insensitive |-> case_insensitive,
     copy |-> copy,
     xform |-> xform,
     test |-> test,
     index_first |-> 1,
     index_step |-> 1,
     index_digits |-> <<"a", "u", "t", "o">>,
     index_pad_with |-> <<"0">>,
     targets |-> <<>>]

Renamers ==
    {Renamer(t, ci, x, c) :
        t \in BOOLEAN, ci \in BOOLEAN, x \in {"", "lower", "upper"}, c \in BOOLEAN}

RegexCall(regex, target, except_regex) ==
    [mode |-> "regex", regex |-> regex, target |-> target,
     substring_from |-> <<>>, substring_to |-> <<>>, except_regex |-> except_regex]

SimpleCall(regex, substring_from, substring_to, except_regex) ==
    [mode |-> "simple", regex |-> regex, target |-> <<>>,
     substring_from |-> substring_from, substring_to |-> substring_to,
     except_regex |-> except_regex]

\* the command lines: regex, target (or the two substrings), --except
Calls ==
    { \* .(.)  \1a
      RegexCall(<< <<Dot, Group(Dot)>> >>, <<"\\", "1", "a">>, <<>>),
      \* .(.)  \1a  --except b
      RegexCall(<< <<Dot, Group(Dot)>> >>, <<"\\", "1", "a">>, << <<Lit("b")>> >>),
      \* A(.)  a\(1)
      RegexCall(<< <<Lit("A"), Group(Dot)>> >>, <<"a", "\\", "(", "1", ")">>, <<>>),
      \* x(.)  \(x)
      RegexCall(<< <<Lit("x"), Group(Dot)>> >>, <<"\\", "(", "x", ")">>, <<>>),
      \* x(.)  a\(Index)
      RegexCall(<< <<Lit("x"), Group(Dot)>> >>,
                <<"a", "\\", "(", "I", "n", "d", "e", "x", ")">>, <<>>),
      \* --simple a b (.*)
      SimpleCall(<< <<Group(DotStar)>> >>, <<"a">>, <<"b">>, <<>>) }

\* Renamer.__init__ with the configuration of the \(index) reference
IndexRenamer(index_first, index_step, index_digits, index_pad_with) ==
    [Renamer(FALSE, FALSE, "", FALSE) EXCEPT
        !.index_first = index_first,
        !.index_step = index_step,
        !.index_digits = index_digits,
        !.index_pad_with = index_pad_with]

\* --index-first, --index-step, --index-digits, --index-pad-with
IndexRenamers ==
    {IndexRenamer(f, st, d, pad) :
        f \in {1, 10, 999, -1}, st \in {1, -1},
        d \in {<<"a", "u", "t", "o">>, <<"1">>, <<"3">>},
        pad \in {<<"0">>, <<"_">>}}

\* the command lines that use \(index) and \(N)
IndexCalls ==
    { \* (.*)  \(index)
      RegexCall(<< <<Group(DotStar)>> >>,
                <<"\\", "(", "i", "n", "d", "e", "x", ")">>, <<>>),
      \* (.*)  \(index)  --except b
      RegexCall(<< <<Group(DotStar)>> >>,
                <<"\\", "(", "i", "n", "d", "e", "x", ")">>, << <<Lit("b")>> >>),
      \* (.)a  \1\(index)
      RegexCall(<< <<Group(Dot), Lit("a")>> >>,
                <<"\\", "1", "\\", "(", "i", "n", "d", "e", "x", ")">>, <<>>),
      \* x(.)  a\(Index)
      RegexCall(<< <<Lit("x"), Group(Dot)>> >>,
                <<"a", "\\", "(", "I", "n", "d", "e", "x", ")">>, <<>>),
      \* x(.)  \(2)
      RegexCall(<< <<Lit("x"), Group(Dot)>> >>, <<"\\", "(", "2", ")">>, <<>>) }

\* the command lines with an alternation, with backslashes in the replacement
\* of the simple mode, and with path separators
TextCalls ==
    { \* a|b  \(0)c
      RegexCall(<< <<Lit("a")>>, <<Lit("b")>> >>, <<"\\", "(", "0", ")", "c">>, <<>>),
      \* --simple a \n (.*)
      SimpleCall(<< <<Group(DotStar)>> >>, <<"a">>, <<"\\", "n">>, <<>>),
      \* --simple a \1 (.*)
      SimpleCall(<< <<Group(DotStar)>> >>, <<"a">>, <<"\\", "1">>, <<>>),
      \* --simple a b (.*)
      SimpleCall(<< <<Group(DotStar)>> >>, <<"a">>, <<"b">>, <<>>),
      \* /(.*)  \1
      RegexCall(<< <<Lit("/"), Group(DotStar)>> >>, <<"\\", "1">>, <<>>),
      \* .(.)  \1a  --except /
      RegexCall(<< <<Dot, Group(Dot)>> >>, <<"\\", "1", "a">>, << <<Lit("/")>> >>),
      \* --simple a / (.*)
      SimpleCall(<< <<Group(DotStar)>> >>, <<"a">>, <<"/">>, <<>>) }

\* the command lines run on the larger directories
OrderCalls ==
    { \* .(.)  \1a
      RegexCall(<< <<Dot, Group(Dot)>> >>, <<"\\", "1", "a">>, <<>>),
      \* (.)a  a\1
      RegexCall(<< <<Group(Dot), Lit("a")>> >>, <<"a", "\\", "1">>, <<>>) }

\* (.)(.)(.)(.)(.)(.)(.)(.)(.)(.)
TenGroups == << [i \in 1..10 |-> Group(Dot)] >>

\* the command lines with several references in the template
TemplateCalls ==
    { \* (.)(.)(.)(.)(.)(.)(.)(.)(.)(.)  \1\10
      RegexCall(TenGroups, <<"\\", "1", "\\", "1", "0">>, <<>>),
      \* (.)(.)(.)(.)(.)(.)(.)(.)(.)(.)  \(1)\(10)
      RegexCall(TenGroups,
                <<"\\", "(", "1", ")", "\\", "(", "1", "0", ")">>, <<>>),
      \* (.)(.*)  \2\1
      RegexCall(<< <<Group(Dot), Group(DotStar)>> >>,
                <<"\\", "2", "\\", "1">>, <<>>) }

\* os.listdir("."): the entries in any order
Listings(fs) ==
    {l \in [1..Cardinality(DOMAIN fs) -> DOMAIN fs] :
        \A i, j \in 1..Cardinality(DOMAIN fs) : l[i] = l[j] => i = j}

\* ---------------------------------------------------------------------------
\* State
\* ---------------------------------------------------------------------------

VARIABLES
    fs,        \* the current directory: name -> [ino, data]
    cs,        \* TRUE: case-sensitive filesystem; FALSE: case-preserving
    renamer,   \* the Renamer object: configuration and self.targets
    call,      \* the arguments of the last rename_regex / rename_simple
    listing,   \* what os.listdir(".") returned in the last call
    status,    \* the StatusCode the last call returned
    message,   \* the exception the last call printed to stderr ("" for none)
    warnings,  \* the arguments the last call printed a separator warning for
    before,    \* the directory as the last call found it
    phase      \* "start", "first" (one call made), "second" (made again)

vars == <<fs, cs, renamer, call, listing, status, message, warnings, before, phase>>

NoCall == RegexCall(<<>>, <<>>, <<>>)

Init ==
    /\ cs \in BOOLEAN
    /\ fs \in Directories(cs)
    /\ renamer = Renamer(FALSE, FALSE, "", FALSE)
    /\ call = NoCall
    /\ listing = <<>>
    /\ status = 0
    /\ message = ""
    /\ warnings = {}
    /\ before = fs
    /\ phase = "start"

\* the state after a call that ended as res
Returned(r, c, l, next, res) ==
    /\ fs' = res.fs
    /\ renamer' = [r EXCEPT !.targets = res.targets]
    /\ call' = c
    /\ listing' = l
    /\ status' = StatusCode(res.exc)
    /\ message' = res.exc
    /\ warnings' = res.warnings
    /\ before' = fs
    /\ phase' = next
    /\ UNCHANGED cs

\* rename_regex / rename_simple on the object r with the arguments c
Run(r, c, l, next) == Returned(r, c, l, next, Rename(r, fs, cs, c, l))

\* run(): one invocation of the program: a Renamer made from the arguments
\* and one call of rename_regex or rename_simple on it
Invoke ==
    /\ phase = "start"
    /\ \E l \in Listings(fs) :
         \E r \in Renamers, c \in Calls : Run(r, c, l, "first")

\* the same command line run again after it succeeded: a new Renamer with
\* the same configuration, the same arguments
Rerun ==
    /\ phase = "first"
    /\ status = 0
    /\ \E l \in Listings(fs) :
         Run([renamer EXCEPT !.targets = <<>>], call, l, "second")

Next == Invoke \/ Rerun

Spec == Init /\ [][Next]_vars

\* ---------------------------------------------------------------------------
\* One Renamer object called twice (selftest._runcase without its
\* `r.targets = {}`)
\* ---------------------------------------------------------------------------

\* r.test = False / r.test = True between two calls
SetTest ==
    /\ phase = "first"
    /\ \E b \in BOOLEAN :
         /\ renamer.test # b
         /\ renamer' = [renamer EXCEPT !.test = b]
    /\ UNCHANGED <<fs, cs, call, listing, status, message, warnings, before, phase>>

\* the second call on the same object, with the same arguments
CallAgain ==
    /\ phase = "first"
    /\ \E l \in Listings(fs) : Run(renamer, call, l, "second")

NextReuse == Invoke \/ SetTest \/ CallAgain

SpecReuse == Init /\ [][NextReuse]_vars

\* ---------------------------------------------------------------------------
\* One invocation with the \(index) configuration on the command line
\* ---------------------------------------------------------------------------

InvokeIndex ==
    /\ phase = "start"
    /\ \E l \in Listings(fs) :
         \E r \in IndexRenamers, c \in IndexCalls : Run(r, c, l, "first")

NextIndex == InvokeIndex

SpecIndex == Init /\ [][NextIndex]_vars

\* ---------------------------------------------------------------------------
\* One invocation with an alternation, a replacement with backslashes or a
\* path separator on the command line
\* ---------------------------------------------------------------------------

InvokeText ==
    /\ phase = "start"
    /\ \E l \in Listings(fs) :
         \E r \in Renamers, c \in TextCalls : Run(r, c, l, "first")

NextText == InvokeText

SpecText == Init /\ [][NextText]_vars

\* ---------------------------------------------------------------------------
\* One invocation on a directory of up to MaxOrderFiles entries
\* ---------------------------------------------------------------------------

InitOrder ==
    /\ cs \in BOOLEAN
    /\ fs \in OrderDirectories(cs)
    /\ renamer = Renamer(FALSE, FALSE, "", FALSE)
    /\ call = NoCall
    /\ listing = <<>>
    /\ status = 0
    /\ message = ""
    /\ warnings = {}
    /\ before = fs
    /\ phase = "start"

InvokeOrder ==
    /\ phase = "start"
    /\ \E l \in Listings(fs) :
         \E r \in Renamers, c \in OrderCalls : Run(r, c, l, "first")

NextOrder == InvokeOrder

SpecOrder == InitOrder /\ [][NextOrder]_vars

\* ---------------------------------------------------------------------------
\* One invocation with several references in the template
\* ---------------------------------------------------------------------------

InitTemplate ==
    /\ cs \in BOOLEAN
    /\ fs \in TemplateDirectories
    /\ renamer = Renamer(FALSE, FALSE, "", FALSE)
    /\ call = NoCall
    /\ listing = <<>>
    /\ status = 0
    /\ message = ""
    /\ warnings = {}
    /\ before = fs
    /\ phase = "start"

InvokeTemplate ==
    /\ phase = "start"
    /\ \E l \in Listings(fs) :
         \E r \in Renamers, c \in TemplateCalls : Run(r, c, l, "first")

NextTemplate == InvokeTemplate

SpecTemplate == InitTemplate /\ [][NextTemplate]_vars

\* ---------------------------------------------------------------------------
\* Properties
\* ---------------------------------------------------------------------------

\* a call has been made; under Spec every call is made on a new Renamer, so
\* renamer.targets is the plan of the last call
Called == phase # "start"

Plan == renamer.targets

PlanEntries == {Plan[j] : j \in 1..Len(Plan)}

\* a plan entry with one source whose name would change
Changes(t) == Len(t.sources) = 1 /\ t.sources[1] # t.target

\* the two names denote two different files of the directory d
DistinctFiles(d, a, b) ==
    /\ PathExists(d, cs, a)
    /\ PathExists(d, cs, b)
    /\ Keys(d, cs, a) # Keys(d, cs, b)

\* C1: a batch (dry-run off) that ends with status 1 because of a fan-in
\* collision, a pre-existing target or an unknown special reference leaves the
\* directory exactly as it found it.
C1_AllOrNothing ==
    (/\ Called
     /\ ~renamer.test
     /\ status = 1
     /\ message \in {"ValueError: multiple files", "ValueError: target exists",
                     "ValueError: unknown reference"})
    => fs = before

\* C1 witness: a real batch failed validation on one entry while another
\* entry of its plan was ready to be renamed to a free name.
C1_Witness ==
    /\ Called
    /\ ~renamer.test
    /\ status = 1
    /\ message = "ValueError: target exists"
    /\ \E t \in PlanEntries : Changes(t) /\ ~PathExists(before, cs, t.target)
    /\ fs = before

\* C3: with test=True the directory (entries and contents) after the call
\* equals the directory before it, whatever the outcome.
C3_DryRunNeverMutates ==
    (Called /\ renamer.test) => fs = before

\* C3 witness: a dry run that succeeded with a plan that would rename an entry.
C3_Witness ==
    /\ Called
    /\ renamer.test
    /\ status = 0
    /\ \E t \in PlanEntries : Changes(t)
    /\ fs = before

\* C4: whenever two or more matched entries of one batch expand to the same
\* destination, the batch returns status 1 and renames nothing.
C4_FanInCollision ==
    (Called /\ \E t \in PlanEntries : Len(t.sources) > 1)
    => (status = 1 /\ fs = before)

\* C4 witness: a real batch in which two entries expanded to one destination
\* that no entry of the directory has.
C4_Witness ==
    /\ Called
    /\ ~renamer.test
    /\ \E t \in PlanEntries :
         /\ Len(t.sources) = 2
         /\ t.sources[1] # t.sources[2]
         /\ ~PathExists(before, cs, t.target)
    /\ status = 1
    /\ message = "ValueError: multiple files"

\* C5: a batch in which some destination differs from its single source and
\* names an existing entry that is a different file returns status 1, also
\* when that entry is itself a source the batch would rename away.
C5_PreExistingTarget ==
    (/\ Called
     /\ \E t \in PlanEntries :
          Changes(t) /\ DistinctFiles(before, t.target, t.sources[1]))
    => status = 1

\* C5 witness: a chain a->b, b->c: the existing target is a source of the same
\* plan with a destination of its own.
C5_Witness ==
    /\ Called
    /\ ~renamer.test
    /\ \E t, u \in PlanEntries :
         /\ Changes(t)
         /\ Changes(u)
         /\ t.target = u.sources[1]
         /\ ~PathExists(before, cs, u.target)
    /\ status = 1
    /\ message = "ValueError: target exists"

\* C2 (as claimed): a move-mode batch that returns status 0 loses no file:
\* every file present before is present afterwards under exactly one name, its
\* old name or its destination, and the number of files is unchanged.
C2_NoDestructiveRename ==
    (Called /\ ~renamer.copy /\ status = 0)
    => /\ Cardinality(DOMAIN fs) = Cardinality(DOMAIN before)
       /\ \A n \in DOMAIN before :
            /\ Cardinality({m \in DOMAIN fs : fs[m] = before[n]}) = 1
            /\ \A m \in DOMAIN fs :
                 fs[m] = before[n]
                 => (m = n \/ \E t \in PlanEntries :
                                 t.sources = <<n>> /\ t.target = m)

\* every destination of the plan differs from its single source in letter
\* case at most, and at least one differs
CaseOnlyBatch ==
    /\ Called
    /\ \A t \in PlanEntries :
         Len(t.sources) = 1 /\ StrLower(t.target) = StrLower(t.sources[1])
    /\ \E t \in PlanEntries : Changes(t)

\* on a case-sensitive filesystem: a batch of which a case-changed destination
\* is an existing entry returns status 1
CaseSensitiveRejects ==
    (cs /\ \E t \in PlanEntries : Changes(t) /\ t.target \in DOMAIN before)
    => status = 1

\* C6 (as claimed): on a case-preserving filesystem a batch whose destinations
\* differ from their sources only in case returns status 0 and leaves the
\* entries under the new names; on a case-sensitive filesystem where the
\* new-cased name is an existing file it returns status 1.
C6_Original ==
    CaseOnlyBatch
    => /\ ~cs => (status = 0 /\ \A t \in PlanEntries : t.target \in DOMAIN fs)
       /\ CaseSensitiveRejects

\* C6 (amended): on the case-preserving filesystem such a batch returns
\* status 0 and leaves the entries under the new-cased names in move mode with
\* dry-run off; with dry-run on it returns status 0 and changes nothing; in
\* copy mode with dry-run off it returns status 2 and changes nothing.  On a
\* case-sensitive filesystem where the new-cased name is an existing file it
\* returns status 1.
C6_CaseIdentity ==
    CaseOnlyBatch
    => /\ (~cs /\ ~renamer.copy /\ ~renamer.test)
          => /\ status = 0
             /\ \A t \in PlanEntries :
                  /\ t.target \in DOMAIN fs
                  /\ Changes(t) => t.sources[1] \notin DOMAIN fs
             /\ Cardinality(DOMAIN fs) = Cardinality(DOMAIN before)
       /\ (~cs /\ renamer.test) => (status = 0 /\ fs = before)
       /\ (~cs /\ renamer.copy /\ ~renamer.test) => (status = 2 /\ fs = before)
       /\ CaseSensitiveRejects

\* C6 witness: a case-only rename carried out on the case-preserving
\* filesystem.
C6_Witness ==
    /\ CaseOnlyBatch
    /\ ~cs /\ ~renamer.copy /\ ~renamer.test
    /\ status = 0
    /\ \E t \in PlanEntries :
         Changes(t) /\ t.target \in DOMAIN fs /\ t.sources[1] \in DOMAIN before

\* C7 (as claimed): after a batch that succeeded in move mode, the same batch
\* run again on the resulting directory never fails with a fan-in collision.
C7_Original ==
    (phase = "second" /\ ~renamer.copy)
    => message # "ValueError: multiple files"

\* every entry the last call matched expands to its own name (or none matched)
NothingChanges ==
    \A t \in PlanEntries : \A i \in 1..Len(t.sources) : t.sources[i] = t.target

\* C7 (amended): after a batch that succeeded in move mode, the same batch run
\* again returns status 0 and changes nothing whenever every entry it matches
\* expands to its own name or it matches nothing.
C7_SecondRun ==
    (phase = "second" /\ ~renamer.copy /\ NothingChanges)
    => (status = 0 /\ fs = before)

\* an entry of the directory d that no longer has the name it started with
Renamed(d) ==
    \E n \in DOMAIN d : d[n].ino <= Len(NamePool) /\ NamePool[d[n].ino] # n

\* C7 witness: the first run renamed an entry, the second run matched entries
\* and all of them kept their names.
C7_Witness ==
    /\ phase = "second"
    /\ ~renamer.copy /\ ~renamer.test
    /\ Renamed(before)
    /\ PlanEntries # {}
    /\ NothingChanges
    /\ status = 0

\* C8 (as claimed): a second call on the same Renamer object returns the
\* status and has the effect of the same call on a new Renamer with the same
\* configuration.
C8_NoStateAcrossInvocations ==
    phase = "second"
    => /\ status = StatusCode(Rename([renamer EXCEPT !.targets = <<>>],
                                     before, cs, call, listing).exc)
       /\ fs = Rename([renamer EXCEPT !.targets = <<>>],
                      before, cs, call, listing).fs

\* C9 (as claimed): after a batch that returns status 0 with dry-run off, the
\* entry names are (before minus the sources whose destination differs) union
\* (all destinations) in move mode, and before union (all destinations) in
\* copy mode.
C9_ResultingNameSet ==
    (Called /\ status = 0 /\ ~renamer.test)
    => DOMAIN fs =
         IF renamer.copy
         THEN DOMAIN before \cup {t.target : t \in PlanEntries}
         ELSE (DOMAIN before \ {t.sources[1] : t \in {u \in PlanEntries : Changes(u)}})
              \cup {t.target : t \in PlanEntries}

\* the \(ref) tokens of the last call's template
Refs == {FindBrackets(call.target, 0)[i] :
            i \in 1..Len(FindBrackets(call.target, 0))}

\* some entry left by the exclusion matches the regex of the last call
SomeEntryMatches ==
    \E i \in 1..Len(FilterFiles(listing, call.except_regex, renamer.case_insensitive)) :
        Search(Compile(call.regex, renamer.case_insensitive, TRUE),
               FilterFiles(listing, call.except_regex, renamer.case_insensitive)[i]).ok

OutOfRangeRefs ==
    {ref \in Refs : IsIntLiteral(ref) /\ ParseInt(ref) > TotalGroups(call.regex)}

\* C11 (as claimed): when the template has a \(N) with N greater than the number
\* of capture groups of the regex and at least one entry matches, the batch
\* fails with status 1 (not status 2) and mutates nothing.
C11_OutOfRangeGroup ==
    (/\ Called
     /\ call.mode = "regex"
     /\ OutOfRangeRefs # {}
     /\ SomeEntryMatches)
    => (status = 1 /\ fs = before)

\* the refs of the last call's template that are `index` in another letter case
CaseVariantRefs ==
    {ref \in Refs : ref # <<"i", "n", "d", "e", "x">>
                    /\ StrLower(ref) = <<"i", "n", "d", "e", "x">>}

\* the template with every \(ref) of refs that is a case variant of `index`
\* written as \(index)
RECURSIVE WithIndexLower(_, _)
WithIndexLower(target, refs) ==
    IF refs = <<>> THEN target
    ELSE WithIndexLower(
            IF StrLower(Head(refs)) = <<"i", "n", "d", "e", "x">>
            THEN StrReplace(target, <<"\\", "(">> \o Head(refs) \o <<")">>,
                            <<"\\", "(", "i", "n", "d", "e", "x", ")">>)
            ELSE target,
            Tail(refs))

\* C12 (as claimed): a \(ref) token that differs from `index` in letter case,
\* such as \(Index), is an unknown reference and makes the batch fail with
\* status 1 (when an entry matches).
C12_Original ==
    (/\ Called
     /\ call.mode = "regex"
     /\ CaseVariantRefs # {}
     /\ SomeEntryMatches)
    => status = 1

\* C12 (amended): the index token is recognised in any letter case: a batch
\* whose template has \(Index) or \(INDEX) has the status, the plan and the
\* effect of the same batch with \(index) in its place.
C12_IndexTokenAnyCase ==
    (/\ Called
     /\ call.mode = "regex"
     /\ CaseVariantRefs # {})
    => /\ status = StatusCode(Rename([renamer EXCEPT !.targets = <<>>], before, cs,
                    [call EXCEPT !.target = WithIndexLower(@, FindBrackets(@, 0))],
                    listing).exc)
       /\ fs = Rename([renamer EXCEPT !.targets = <<>>], before, cs,
                    [call EXCEPT !.target = WithIndexLower(@, FindBrackets(@, 0))],
                    listing).fs
       /\ Plan = Rename([renamer EXCEPT !.targets = <<>>], before, cs,
                    [call EXCEPT !.target = WithIndexLower(@, FindBrackets(@, 0))],
                    listing).targets

\* C12 witness: a batch with \(Index) in its template renamed an entry to a
\* name that carries the sequence value.
C12_Witness ==
    /\ Called
    /\ call.mode = "regex"
    /\ CaseVariantRefs # {}
    /\ status = 0
    /\ \E t \in PlanEntries :
         /\ Changes(t)
         /\ t.target \in DOMAIN fs
         /\ t.target = <<"a">> \o FormatD(renamer.index_first)

\* the entries of the last call's listing left by the exclusion
Files == FilterFiles(listing, call.except_regex, renamer.case_insensitive)

\* r.search(entry) of the last call
EntryMatch(entry) ==
    Search(Compile(call.regex, renamer.case_insensitive, TRUE), entry)

\* the number of entries before the i-th of Files that match the regex
MatchedBefore(i) ==
    Cardinality({j \in 1..(i - 1) : EntryMatch(Files[j]).ok})

\* C13 (as claimed): the n-th entry (0-based, in listing order) that matches
\* the regex is expanded with the index value index_first + n * index_step, n
\* counting the matched entries only.
C13_IndexOfMatchedEntries ==
    (/\ Called
     /\ call.mode = "regex"
     /\ message = "")
    => \A i \in 1..Len(Files) :
         EntryMatch(Files[i]).ok
         => \E t \in PlanEntries :
              /\ \E k \in 1..Len(t.sources) : t.sources[k] = Files[i]
              /\ t.target = ApplyMatch(renamer, EntryMatch(Files[i]), call.target,
                                       MatchedBefore(i), Len(Files)).val

\* the exclusion regex of the last call matches somewhere in the name
Excluded(entry) ==
    /\ call.except_regex # <<>>
    /\ \E p \in 0..Len(entry) : \E a \in 1..Len(call.except_regex) :
         MatchAtoms(call.except_regex[a], 1, entry, p,
                    renamer.case_insensitive) # <<>>

\* the listing of the last call with the excluded entries deleted
Kept == SelectSeq(listing, LAMBDA e : ~Excluded(e))

\* C14: an excluded entry is never a source of the plan, is left as it is, and
\* takes no index slot: the plan is the plan of the same batch, without the
\* exclusion, on the listing with the excluded entries deleted.
C14_ExclusionBeforeEnumeration ==
    Called
    => /\ \A t \in PlanEntries : \A k \in 1..Len(t.sources) : ~Excluded(t.sources[k])
       /\ \A e \in DOMAIN before :
            Excluded(e) => (e \in DOMAIN fs /\ fs[e] = before[e])
       /\ Plan = Rename([renamer EXCEPT !.targets = <<>>], before, cs,
                        [call EXCEPT !.except_regex = <<>>], Kept).targets

\* C14 witness: an excluded entry listed before an entry that was renamed to
\* the first index value.
C14_Witness ==
    /\ Called
    /\ status = 0
    /\ Len(listing) = 2
    /\ Excluded(listing[1])
    /\ \E t \in PlanEntries :
         /\ t.sources = <<listing[2]>>
         /\ t.target = FormatD(renamer.index_first)
         /\ t.target \in DOMAIN fs
    /\ listing[1] \in DOMAIN fs

\* C15 (as claimed): with index_digits = "auto", for every index_first and
\* index_step (negative allowed), all \(index) substitutions of one batch have
\* the same number of characters.  (With the template \(index) the destination
\* is the substitution.)
C15_UniformWidthUnderAuto ==
    (/\ Called
     /\ call.mode = "regex"
     /\ call.target = <<"\\", "(", "i", "n", "d", "e", "x", ")">>
     /\ renamer.index_digits = <<"a", "u", "t", "o">>)
    => \A t, u \in PlanEntries : Len(t.target) = Len(u.target)

\* some alternative of the regex matches the whole of the name, from its
\* start to its end
FullMatch(regex, ic, entry) ==
    \E a \in 1..Len(regex) :
        \E o \in {MatchAtoms(regex[a], 1, entry, 0, ic)[j] :
                    j \in 1..Len(MatchAtoms(regex[a], 1, entry, 0, ic))} :
            o.end = Len(entry)

\* C16 (as claimed): for every user regex, one with a top-level alternation
\* included, an entry is a source of the plan only if the regex matches its
\* entire name; an entry of which only a prefix or a suffix matches is skipped.
C16_FullStringAnchoring ==
    Called
    => \A t \in PlanEntries : \A k \in 1..Len(t.sources) :
         FullMatch(call.regex, renamer.case_insensitive, t.sources[k])

\* s with every non-overlapping occurrence of pat, found from 0-based position
\* p on (regardless of letter case when ic), replaced by repl character for
\* character
RECURSIVE LiteralSub(_, _, _, _, _)
LiteralSub(pat, ic, repl, s, p) ==
    IF p >= Len(s) THEN <<>>
    ELSE IF StartsWithAt(IF ic THEN StrLower(s) ELSE s,
                         IF ic THEN StrLower(pat) ELSE pat, p)
         THEN repl \o LiteralSub(pat, ic, repl, s, p + Len(pat))
         ELSE <<s[p + 1]>> \o LiteralSub(pat, ic, repl, s, p + 1)

\* C17 (as claimed): in simple mode every matched entry is planned with the
\* destination in which each occurrence of substring_from is replaced by
\* substring_to exactly as given, backslash sequences included (the configured
\* transform applied to the result).
C17_LiteralReplacement ==
    (Called /\ call.mode = "simple" /\ call.substring_from # <<>>)
    => \A i \in 1..Len(Files) :
         EntryMatch(Files[i]).ok
         => \E t \in PlanEntries :
              /\ \E k \in 1..Len(t.sources) : t.sources[k] = Files[i]
              /\ t.target = TRANSFORM(renamer.xform,
                     LiteralSub(call.substring_from, renamer.case_insensitive,
                                call.substring_to, EntryMatch(Files[i]).whole, 0))

\* C18 (as claimed, for the identity transform): in simple mode with
\* case_insensitive on, the occurrences of substring_from are found regardless
\* of letter case and each is replaced by substring_to as written, the other
\* characters keeping their case; with case_insensitive off the destination is
\* the name with the exact-case occurrences replaced.
C18_CaseFoldedSubstring ==
    (/\ Called
     /\ call.mode = "simple"
     /\ call.substring_from # <<>>
     /\ renamer.xform = ""
     /\ status = 0)
    => \A t \in PlanEntries : \A k \in 1..Len(t.sources) :
         t.target =
            IF renamer.case_insensitive
            THEN LiteralSub(call.substring_from, TRUE, call.substring_to,
                            t.sources[k], 0)
            ELSE StrReplace(t.sources[k], call.substring_from, call.substring_to)

\* C19: a path separator in regex, target, except_regex, substring_from or
\* substring_to only adds a warning: the status, the plan and the directory
\* are those of the batch without the warning check (/(.*) with the target \1
\* returns 0).
C19_SeparatorWarningNonFatal ==
    (Called /\ warnings # {})
    => /\ status = StatusCode(
              Planned([renamer EXCEPT !.targets = <<>>], before, cs,
                      Scan(renamer, call, Files, 1, <<>>)).exc)
       /\ fs = Planned([renamer EXCEPT !.targets = <<>>], before, cs,
                       Scan(renamer, call, Files, 1, <<>>)).fs
       /\ Plan = Planned([renamer EXCEPT !.targets = <<>>], before, cs,
                         Scan(renamer, call, Files, 1, <<>>)).targets
       /\ (call.regex = << <<Lit("/"), Group(DotStar)>> >>) => status = 0

\* C19 witness: a batch that printed a separator warning went on to rename an
\* entry and returned 0.
C19_Witness ==
    /\ Called
    /\ warnings # {}
    /\ ~renamer.test
    /\ status = 0
    /\ \E t \in PlanEntries : Changes(t) /\ t.target \in DOMAIN fs
    /\ fs # before

\* the text t is the text digits with the character pad put in front of it
\* until the length is width, and digits itself when it is that long or longer
LeftPadded(t, digits, pad, width) ==
    /\ Len(t) = (IF Len(digits) >= width THEN Len(digits) ELSE width)
    /\ \A i \in 1..Len(t) :
         t[i] = (IF i <= Len(t) - Len(digits) THEN pad
                 ELSE digits[i - (Len(t) - Len(digits))])

\* C20: with a fixed index_digits the \(index) substitution is the base-10
\* rendering of the index left-padded with index_pad_with up to that width,
\* and it is the whole rendering when that is already longer.  (With the
\* template \(index) and the regex (.*) every listed entry is planned and its
\* destination is the substitution.)
C20_IndexRendering ==
    (/\ Called
     /\ call.mode = "regex"
     /\ call.target = <<"\\", "(", "i", "n", "d", "e", "x", ")">>
     /\ IsIntLiteral(renamer.index_digits)
     /\ Len(renamer.index_pad_with) = 1)
    => /\ message \notin {"ValueError: math domain error",
                          "ValueError: invalid literal for int()"}
       /\ \A i \in 1..Len(Files) :
            EntryMatch(Files[i]).ok
            => \E t \in PlanEntries :
                 /\ t.sources = <<Files[i]>>
                 /\ LeftPadded(t.target,
                       FormatD(renamer.index_first + (i - 1) * renamer.index_step),
                       renamer.index_pad_with[1],
                       ParseInt(renamer.index_digits))

\* C20 witness: an index with fewer digits than the fixed width was padded on
\* the left with the pad character, and the entry renamed to it.
C20_Witness ==
    /\ Called
    /\ call.target = <<"\\", "(", "i", "n", "d", "e", "x", ")">>
    /\ renamer.index_digits = <<"3">>
    /\ renamer.index_pad_with = <<"_">>
    /\ status = 0
    /\ \E t \in PlanEntries :
         /\ t.target = <<"_", "_", "1">>
         /\ t.target \in DOMAIN fs

\* every entry the last call matched is in the plan under its own name
NoMatchedNameChanges ==
    \A i \in 1..Len(Files) :
        EntryMatch(Files[i]).ok
        => \E t \in PlanEntries :
             t.sources = <<Files[i]>> /\ t.target = Files[i]

\* C21: an entry whose destination is its own name is neither renamed nor
\* copied, and a batch in which no matched name changes returns status 0 and
\* leaves the directory unchanged.
C21_UnchangedNamesSkipped ==
    Called
    => /\ \A t \in PlanEntries :
            t.sources = <<t.target>>
            => (t.target \in DOMAIN fs /\ fs[t.target] = before[t.target])
       /\ NoMatchedNameChanges => (status = 0 /\ fs = before)

\* C21 witness: a real batch in copy mode matched an entry, its name did not
\* change, and the batch returned 0 with the directory as it was.
C21_Witness ==
    /\ phase = "first"
    /\ ~renamer.test
    /\ renamer.copy
    /\ PlanEntries # {}
    /\ NoMatchedNameChanges
    /\ status = 0
    /\ fs = before

\* the name the i-th entry of Files expands to before the transform
Expansion(i) ==
    MoveTo([renamer EXCEPT !.xform = ""], call, EntryMatch(Files[i]),
           i - 1, Len(Files))

\* two matched entries whose expansions differ, and only in letter case
CaseOnlyExpansions ==
    \E i, j \in 1..Len(Files) :
        /\ i # j
        /\ EntryMatch(Files[i]).ok /\ EntryMatch(Files[j]).ok
        /\ Expansion(i).exc = "" /\ Expansion(j).exc = ""
        /\ Expansion(i).val # Expansion(j).val
        /\ StrLower(Expansion(i).val) = StrLower(Expansion(j).val)

\* C22: the transform is applied to the whole expanded name and the plan is
\* keyed by the transformed name, so two sources whose expansions differ only
\* in letter case collide (status 1, nothing renamed) under lower or upper.
C22_TransformBeforeValidation ==
    Called
    => /\ \A i \in 1..Len(Files) :
            (EntryMatch(Files[i]).ok /\ message = "")
            => \E t \in PlanEntries :
                 /\ \E k \in 1..Len(t.sources) : t.sources[k] = Files[i]
                 /\ t.target = TRANSFORM(renamer.xform, Expansion(i).val)
       /\ (renamer.xform \in {"lower", "upper"} /\ CaseOnlyExpansions)
          => (status = 1 /\ fs = before)

\* C22 witness: on a case-sensitive filesystem with upper, two entries whose
\* expansions differ only in case were planned for one destination and the
\* batch failed with the collision.
C22_Witness ==
    /\ Called
    /\ cs
    /\ ~renamer.test
    /\ renamer.xform = "upper"
    /\ CaseOnlyExpansions
    /\ message = "ValueError: multiple files"
    /\ status = 1
    /\ fs = before

\* a destination of the plan with several sources
FanIn(t) == Len(t.sources) > 1

\* a destination of the plan, with one source, that is an existing entry and a
\* different file than its source
ExistsAsOtherFile(t) ==
    Len(t.sources) = 1 /\ DistinctFiles(before, t.target, t.sources[1])

\* the plan has a destination with several sources and another destination
\* that already exists as a different file
BothFailures ==
    /\ Called
    /\ message \in {"", "ValueError: multiple files", "ValueError: target exists"}
    /\ \E t \in PlanEntries : FanIn(t)
    /\ \E t \in PlanEntries : ExistsAsOtherFile(t)

\* the position in the plan of the first destination that fails a check
FirstFailing ==
    CHOOSE j \in 1..Len(Plan) :
        /\ FanIn(Plan[j]) \/ ExistsAsOtherFile(Plan[j])
        /\ \A k \in 1..(j - 1) : ~(FanIn(Plan[k]) \/ ExistsAsOtherFile(Plan[k]))

\* C23 (as claimed): when one plan has both a destination with several sources
\* and another destination that already exists as a different file, the batch
\* fails with the collision error, whatever the listing order.
C23_Original ==
    BothFailures => message = "ValueError: multiple files"

\* C23 (amended): such a batch fails with status 1 and renames nothing, and the
\* error is that of the first failing destination in plan order: the collision
\* error when it has several sources, the target-exists error otherwise.
C23_ValidationOrder ==
    BothFailures
    => /\ status = 1
       /\ fs = before
       /\ message = (IF FanIn(Plan[FirstFailing])
                     THEN "ValueError: multiple files"
                     ELSE "ValueError: target exists")

\* C23 witness: the destination that exists as another file was planned before
\* the destination with several sources, and the batch failed with the
\* target-exists error.
C23_Witness ==
    /\ BothFailures
    /\ ~renamer.test
    /\ ExistsAsOtherFile(Plan[FirstFailing])
    /\ message = "ValueError: target exists"
    /\ status = 1

\* the text of group n of the match m (group 0: the whole match)
GroupText(m, n) == IF n = 0 THEN m.whole ELSE m.groups[n].text

\* The template t from 0-based position p on, with every \N and \(N) token
\* replaced by the text of group N in one pass: what is put in for a token is
\* not looked at again.
RECURSIVE Simultaneous(_, _, _)
Simultaneous(t, p, m) ==
    IF p >= Len(t) THEN <<>>
    ELSE IF t[p + 1] = "\\" /\ DigitRun(t, p + 1) > 0
         THEN GroupText(m, ParseInt(Slice(t, p + 1, DigitRun(t, p + 1))))
              \o Simultaneous(t, p + 1 + DigitRun(t, p + 1), m)
    ELSE IF /\ StartsWithAt(t, <<"\\", "(">>, p)
            /\ NonParenRun(t, p + 2) > 0
            /\ p + 2 + NonParenRun(t, p + 2) < Len(t)
            /\ IsIntLiteral(Slice(t, p + 2, NonParenRun(t, p + 2)))
         THEN GroupText(m, ParseInt(Slice(t, p + 2, NonParenRun(t, p + 2))))
              \o Simultaneous(t, p + 3 + NonParenRun(t, p + 2), m)
    ELSE <<t[p + 1]>> \o Simultaneous(t, p + 1, m)

\* every reference of the last call's template is a group number of its regex
AllRefsAreGroups ==
    /\ \A i \in 1..Len(FindBackrefs(call.target, 0)) :
         ParseInt(FindBackrefs(call.target, 0)[i]) <= TotalGroups(call.regex)
    /\ \A ref \in Refs : IsIntLiteral(ref) /\ ParseInt(ref) <= TotalGroups(call.regex)

\* C24 (as claimed): the destination is the template with every \N and every
\* \(N) token replaced by the text of capture group N, simultaneously: no
\* replacement alters another token (\1 beside \10) or re-expands inserted
\* text (the configured transform applied to the result).
C24_SimultaneousSubstitution ==
    (/\ Called
     /\ call.mode = "regex"
     /\ AllRefsAreGroups)
    => \A i \in 1..Len(Files) :
         EntryMatch(Files[i]).ok
         => \E t \in PlanEntries :
              /\ \E k \in 1..Len(t.sources) : t.sources[k] = Files[i]
              /\ t.target = TRANSFORM(renamer.xform,
                                Simultaneous(call.target, 0, EntryMatch(Files[i])))

\* C25 (as claimed): with index_digits = "auto" the pad width used for every
\* entry of a batch is the number of decimal digits of index(T) =
\* index_first + T * index_step, T the count of listing entries left by the
\* exclusion.  (index(T) positive; with the template \(index) and the regex
\* (.*) every listed entry is planned and its destination is the padded index.)
C25_AutoWidth ==
    (/\ Called
     /\ call.mode = "regex"
     /\ call.target = <<"\\", "(", "i", "n", "d", "e", "x", ")">>
     /\ renamer.index_digits = <<"a", "u", "t", "o">>
     /\ Len(renamer.index_pad_with) = 1
     /\ renamer.index_first + Len(Files) * renamer.index_step > 0)
    => \A i \in 1..Len(Files) :
         EntryMatch(Files[i]).ok
         => \E t \in PlanEntries :
              /\ t.sources = <<Files[i]>>
              /\ LeftPadded(t.target,
                    FormatD(renamer.index_first + (i - 1) * renamer.index_step),
                    renamer.index_pad_with[1],
                    Len(NatToStr(renamer.index_first
                                 + Len(Files) * renamer.index_step)))

\* the text t ends with the text s
EndsWith(t, s) ==
    /\ Len(t) >= Len(s)
    /\ \A i \in 1..Len(s) : t[Len(t) - Len(s) + i] = s[i]

\* C26 (as claimed): when index_first + n * index_step is negative the \(index)
\* substitution renders the absolute magnitude of the index in base 10,
\* without a minus sign, and the batch does not fail because of the negative
\* value.  (Template \(index), regex (.*): every listed entry is planned and
\* its destination is the substitution.)
C26_NegativeIndexMagnitude ==
    (/\ Called
     /\ call.mode = "regex"
     /\ call.target = <<"\\", "(", "i", "n", "d", "e", "x", ")">>
     /\ Len(renamer.index_pad_with) = 1
     /\ \E i \in 1..Len(Files) :
          /\ EntryMatch(Files[i]).ok
          /\ renamer.index_first + (i - 1) * renamer.index_step < 0)
    => /\ message # "ValueError: math domain error"
       /\ \A i \in 1..Len(Files) :
            (/\ EntryMatch(Files[i]).ok
             /\ renamer.index_first + (i - 1) * renamer.index_step < 0)
            => \E t \in PlanEntries :
                 /\ t.sources = <<Files[i]>>
                 /\ \A k \in 1..Len(t.target) : t.target[k] # "-"
                 /\ EndsWith(t.target,
                       NatToStr(0 - (renamer.index_first
                                     + (i - 1) * renamer.index_step)))

\* the batch of the last call made by a new Renamer of the same configuration
\* with dry-run off, on the directory the last call found
RealRun ==
    Rename([renamer EXCEPT !.test = FALSE, !.targets = <<>>],
           before, cs, call, listing)

\* the operations a dry run reports on stdout: the plan entries whose name
\* changes, in plan order
Reported == SelectSeq(Plan, LAMBDA t : t.sources[1] # t.target)

\* the operations ops from the j-th on carried out on the directory d one
\* after the other, up to the first one the filesystem refuses
RECURSIVE Performed(_, _, _)
Performed(d, ops, j) ==
    IF j > Len(ops) THEN [exc |-> "", fs |-> d]
    ELSE LET done == IF renamer.copy
                     THEN ShutilCopy(d, cs, ops[j].sources[1], ops[j].target)
                     ELSE OsRename(d, cs, ops[j].sources[1], ops[j].target)
         IN  IF done.exc # "" THEN [exc |-> done.exc, fs |-> d]
             ELSE Performed(done.val, ops, j + 1)

====
